---- MODULE Spec2Model ----
(***************************************************************************)
(* Model of clardio_sensors (src/src/clardio_sensors/__init__.py): the     *)
(* shared SensorState, the GATT decoders and notification handlers, the    *)
(* per-device session loop manage_device/connect_device, the shared        *)
(* scanner scan_for_devices and the publisher post_metrics_loop.           *)
(*                                                                         *)
(* All tasks run on one asyncio event loop, so a step of the model is the  *)
(* code a task runs between two suspension points (an await that really    *)
(* suspends).  asyncio.Queue.put on an unbounded queue and Queue.get on a  *)
(* non-empty queue do not suspend, and are part of the step that calls     *)
(* them.  Notification handlers are plain callbacks and are one step each. *)
(***************************************************************************)
EXTENDS Integers, Sequences, FiniteSets, TLC

(***************************************************************************)
(* Bounds of the model (not program constants).                            *)
(***************************************************************************)
\* longest Discovery Handoff Queue explored (the code's queue is unbounded)
MaxQueue == 2

(***************************************************************************)
(* Configuration, lines 28-36 and 359-375.                                 *)
(***************************************************************************)
\* DEVICES: the two target addresses, named by their DEVICES key
DEVICES == {"gymnasticon", "coros_pace_3"}

\* an advertiser that is not a target (the scan returns every device heard)
OtherAddr == "other"

\* the characteristics manage_device is started with, in subscription order
Characteristics(d) ==
    IF d = "gymnasticon" THEN <<"CHAR_CYCLING_POWER", "CHAR_CSC_MEASUREMENT">>
                         ELSE <<"CHAR_HEART_RATE">>

\* "unset" value of last_crank_revs / last_crank_time (Python None)
None == -1

VARIABLES
    \* SensorState, lines 47-59
    power, hr, cadence,
    connected_gymnasticon, connected_coros,
    last_crank_revs, last_crank_time,
    \* async_main: the two Discovery Handoff Queues, keyed by device
    device_queues,
    \* scan_for_devices: locals found, needed and the suspension point
    found, needed, scan_pc,
    \* manage_device / connect_device, per device: the suspension point, the
    \* local `client` (what connect_device last returned), the index of the
    \* characteristic being subscribed, and the BleakClient's link liveness
    \* (client.is_connected) and active subscriptions
    pc, client, char_idx, is_connected, notifying,
    \* post_metrics_loop: the suspension point and the local dict metrics
    post_pc, metrics,
    \* the exception the last step let escape to its caller: "None" when the
    \* callback or task step returned or caught what was raised
    handler_exc

sensorVars == <<power, hr, cadence, connected_gymnasticon, connected_coros,
                last_crank_revs, last_crank_time>>
scanVars == <<found, needed, scan_pc>>
sessionVars == <<pc, client, char_idx, is_connected, notifying>>
postVars == <<post_pc, metrics>>
vars == <<sensorVars, device_queues, scanVars, sessionVars, postVars,
          handler_exc>>

(***************************************************************************)
(* BLE data parsing, lines 66-120.  A payload is a sequence of bytes;      *)
(* Python offset o is index o+1.                                           *)
(***************************************************************************)
\* struct.unpack_from("<H", data, offset)[0]
UnpackU16(data, offset) == data[offset + 1] + 256 * data[offset + 2]

\* struct.unpack_from("<h", data, offset)[0]
UnpackS16(data, offset) ==
    LET u == UnpackU16(data, offset)
    IN  IF u >= 32768 THEN u - 65536 ELSE u

\* flags & mask != 0 for a one-bit mask
BitSet(flags, mask) == (flags \div mask) % 2 = 1

Max(a, b) == IF a >= b THEN a ELSE b

\* whether parse_heart_rate returns (it raises IndexError / struct.error on
\* a payload too short for the reads at lines 68, 71, 73)
HeartRateDecodes(data) ==
    /\ Len(data) >= 1
    /\ IF BitSet(data[1], 1) THEN Len(data) >= 3 ELSE Len(data) >= 2

\* mutant of parse_heart_rate: the 16-bit flag is ignored
parse_heart_rate_8bit(data) == data[2]

parse_heart_rate(data) ==
    LET flags == data[1]
        is_16bit == BitSet(flags, 1)
    IN  IF is_16bit THEN UnpackU16(data, 1) ELSE data[2]

\* whether parse_cycling_power returns (struct.error when shorter than 4)
CyclingPowerDecodes(data) == Len(data) >= 4

\* mutant of parse_cycling_power: the clamp of line 80 is left out
parse_cycling_power_unclamped(data) == UnpackS16(data, 2)

parse_cycling_power(data) == Max(0, UnpackS16(data, 2))

\* whether parse_csc_measurement returns (lines 87, 97, 98 raise otherwise)
CscDecodes(data) ==
    /\ Len(data) >= 1
    /\ BitSet(data[1], 2) =>
          Len(data) >= (IF BitSet(data[1], 1) THEN 7 ELSE 1) + 4

\* the exception each decoder raises on `data` ("None" when it returns):
\* indexing bytes past the end raises IndexError, struct.unpack_from on a
\* buffer too short raises struct.error
HeartRateException(data) ==
    IF Len(data) < 1 THEN "IndexError"
    ELSE IF BitSet(data[1], 1)
         THEN (IF Len(data) < 3 THEN "struct.error" ELSE "None")
         ELSE (IF Len(data) < 2 THEN "IndexError" ELSE "None")

CyclingPowerException(data) ==
    IF Len(data) < 4 THEN "struct.error" ELSE "None"

CscException(data) ==
    IF Len(data) < 1 THEN "IndexError"
    ELSE IF CscDecodes(data) THEN "None" ELSE "struct.error"

\* whether n is a power of two
RECURSIVE IsPow2(_)
IsPow2(n) == IF n <= 1 THEN n = 1 ELSE (n % 2 = 0 /\ IsPow2(n \div 2))

RECURSIVE Gcd(_, _)
Gcd(a, b) == IF b = 0 THEN a ELSE Gcd(b, a % b)

\* round((rev_delta / time_delta) * 1024 * 60), lines 113 and 116: the set
\* of values the double-precision expression can round to.  The exact
\* quotient rev_delta*61440/time_delta is split so that no intermediate
\* exceeds 31 bits.  Off a tie the double result is within 2^-20 of the
\* exact one and at least 1/(2*time_delta) from a rounding boundary, so it
\* rounds as the exact value does.  On an exact tie Python's round goes to
\* the even neighbour when rev_delta/time_delta is a binary fraction (the
\* double arithmetic is then exact); otherwise the quotient is inexact and
\* the result is the neighbour below or above.
RoundCadence(rev_delta, time_delta) ==
    LET a  == rev_delta \div time_delta
        b  == rev_delta % time_delta
        c  == (b * 1024) \div time_delta
        e  == (b * 1024) % time_delta
        f  == (e * 60) \div time_delta
        r  == (e * 60) % time_delta
        fl == a * 61440 + c * 60 + f
    IN  IF 2 * r < time_delta THEN {fl}
        ELSE IF 2 * r > time_delta THEN {fl + 1}
        ELSE IF IsPow2(time_delta \div Gcd(rev_delta, time_delta))
             THEN {IF fl % 2 = 0 THEN fl ELSE fl + 1}
             ELSE {fl, fl + 1}

\* mutant of Rollover: the wraparound correction is left out
RolloverDropped(delta) == delta

\* "Handle 16-bit rollover", lines 106-109
Rollover(delta) == IF delta < 0 THEN delta + 65536 ELSE delta

\* mutant of parse_csc_measurement: the pair is stored only together with an
\* emitted rate (lines 118-119 are left out)
parse_csc_measurement_keep(data, lr, lt) ==
    LET flags == data[1]
        has_crank_data == BitSet(flags, 2)
        has_wheel_data == BitSet(flags, 1)
        offset == IF has_wheel_data THEN 7 ELSE 1
        crank_revs == UnpackU16(data, offset)
        crank_time == UnpackU16(data, offset + 2)
        rev_delta == IF crank_revs - lr < 0 THEN crank_revs - lr + 65536
                                            ELSE crank_revs - lr
        time_delta == IF crank_time - lt < 0 THEN crank_time - lt + 65536
                                             ELSE crank_time - lt
    IN  IF has_crank_data /\ lr # -1 /\ lt # -1 /\ time_delta > 0
        THEN {[ret |-> c, revs |-> crank_revs, time |-> crank_time] :
                 c \in RoundCadence(rev_delta, time_delta)}
        ELSE {[ret |-> -1, revs |-> lr, time |-> lt]}

\* parse_csc_measurement, lines 83-120, on a payload it decodes, with the
\* remembered pair (lr, lt): the possible outcomes [ret, revs, time], ret
\* the returned cadence or None and (revs, time) the pair remembered after
CscOutcome(ret, revs, time) == [ret |-> ret, revs |-> revs, time |-> time]

parse_csc_measurement(data, lr, lt) ==
    LET flags == data[1]
        has_crank_data == BitSet(flags, 2)
        has_wheel_data == BitSet(flags, 1)
        offset == IF has_wheel_data THEN 7 ELSE 1
        crank_revs == UnpackU16(data, offset)
        crank_time == UnpackU16(data, offset + 2)
        rev_delta == Rollover(crank_revs - lr)
        time_delta == Rollover(crank_time - lt)
    IN  IF ~has_crank_data THEN {CscOutcome(None, lr, lt)}
        ELSE IF lr # None /\ lt # None /\ time_delta > 0
             THEN {CscOutcome(c, crank_revs, crank_time) :
                      c \in RoundCadence(rev_delta, time_delta)}
             ELSE {CscOutcome(None, crank_revs, crank_time)}

(***************************************************************************)
(* Notification payloads delivered by the peripherals.                     *)
(***************************************************************************)
\* Heart Rate Measurement: 72 bpm in 8 bits, 300 bpm in 16 bits, truncated
HeartRatePayloads == {<<0, 72>>, <<1, 44, 1>>, <<1, 44>>}

\* Cycling Power Measurement: 237 W, -50 W, truncated
CyclingPowerPayloads == {<<0, 0, 237, 0>>, <<0, 0, 206, 255>>, <<0, 0, 237>>}

\* CSC Measurement: crank (100, 1024), crank (110, 2048), wheel data only,
\* truncated crank data
CscPayloads ==
    {<<2, 100, 0, 0, 4>>, <<2, 110, 0, 0, 8>>, <<1, 5, 0, 0, 0, 9, 0>>,
     <<2, 100, 0>>}

(***************************************************************************)
(* Notification handlers, lines 133-152.  The BLE stack calls a handler    *)
(* for a characteristic while the link is up and start_notify succeeded    *)
(* for it.  A decoder that raises leaves the handler before its write.     *)
(***************************************************************************)
Delivers(d, char) == is_connected[d] /\ char \in notifying[d]

\* mutant of handle_heart_rate: the reading is stored in the wrong field
handle_heart_rate_into_power(data) ==
    /\ Delivers("coros_pace_3", "CHAR_HEART_RATE")
    /\ power' = IF HeartRateDecodes(data) THEN parse_heart_rate(data) ELSE power
    /\ handler_exc' = HeartRateException(data)
    /\ UNCHANGED <<hr, cadence, connected_gymnasticon, connected_coros,
                   last_crank_revs, last_crank_time>>
    /\ UNCHANGED <<device_queues, scanVars, sessionVars, postVars>>

handle_heart_rate(data) ==
    /\ Delivers("coros_pace_3", "CHAR_HEART_RATE")
    /\ hr' = IF HeartRateDecodes(data) THEN parse_heart_rate(data) ELSE hr
    /\ handler_exc' = HeartRateException(data)
    /\ UNCHANGED <<power, cadence, connected_gymnasticon, connected_coros,
                   last_crank_revs, last_crank_time>>
    /\ UNCHANGED <<device_queues, scanVars, sessionVars, postVars>>

handle_cycling_power(data) ==
    /\ Delivers("gymnasticon", "CHAR_CYCLING_POWER")
    /\ power' = IF CyclingPowerDecodes(data) THEN parse_cycling_power(data)
                                             ELSE power
    /\ handler_exc' = CyclingPowerException(data)
    /\ UNCHANGED <<hr, cadence, connected_gymnasticon, connected_coros,
                   last_crank_revs, last_crank_time>>
    /\ UNCHANGED <<device_queues, scanVars, sessionVars, postVars>>

handle_csc_measurement(data) ==
    /\ Delivers("gymnasticon", "CHAR_CSC_MEASUREMENT")
    /\ IF CscDecodes(data)
       THEN \E out \in parse_csc_measurement(data, last_crank_revs,
                                             last_crank_time) :
               /\ last_crank_revs' = out.revs
               /\ last_crank_time' = out.time
               /\ cadence' = IF out.ret # None THEN out.ret ELSE cadence
       ELSE UNCHANGED <<last_crank_revs, last_crank_time, cadence>>
    /\ handler_exc' = CscException(data)
    /\ UNCHANGED <<power, hr, connected_gymnasticon, connected_coros>>
    /\ UNCHANGED <<device_queues, scanVars, sessionVars, postVars>>

(***************************************************************************)
(* manage_device and connect_device, lines 159-222.                        *)
(*   pc[d] = "idle"        suspended in device_queue.get(), line 195       *)
(*           "connecting"  suspended in client.connect(), line 169         *)
(*           "subscribing" suspended in client.start_notify(), line 174    *)
(*           "backoff"     suspended in sleep(RECONNECT_DELAY), line 202   *)
(*           "monitoring"  suspended in sleep(1.0), line 210               *)
(*   client[d] is "None" until connect_device first returns a client, and  *)
(*   is rebound at line 198 by every later return.                         *)
(***************************************************************************)
\* the lambdas passed as set_connected, lines 366 and 373
set_connected(d, v) ==
    IF d = "gymnasticon"
    THEN connected_gymnasticon' = v /\ UNCHANGED connected_coros
    ELSE connected_coros' = v /\ UNCHANGED connected_gymnasticon

\* "gymnasticon" in name.lower(), line 218, for the names of lines 361, 371
NameHasGymnasticon(d) == d = "gymnasticon"

\* mutant of ResetValues: every metric is zeroed whichever device left
ResetValuesAll(d) == power' = 0 /\ cadence' = 0 /\ hr' = 0

\* "Reset values on disconnect", lines 218-222
ResetValues(d) ==
    IF NameHasGymnasticon(d)
    THEN power' = 0 /\ cadence' = 0 /\ UNCHANGED hr
    ELSE hr' = 0 /\ UNCHANGED <<power, cadence>>

\* the top of the while loop, line 195: get() returns at once when the queue
\* holds an event (the session goes on to client.connect()), else suspends
AwaitDevice(d) ==
    IF device_queues[d] # <<>>
    THEN /\ device_queues' = [device_queues EXCEPT ![d] = Tail(@)]
         /\ pc' = [pc EXCEPT ![d] = "connecting"]
    ELSE /\ pc' = [pc EXCEPT ![d] = "idle"]
         /\ UNCHANGED device_queues

\* lines 214-222 and back to line 195: the disconnect transition
Disconnected(d) ==
    /\ set_connected(d, FALSE)
    /\ ResetValues(d)
    /\ AwaitDevice(d)

\* line 195 resumes: the scanner has put an event on the queue
QueueGet(d) ==
    /\ pc[d] = "idle"
    /\ handler_exc' = "None"
    /\ device_queues[d] # <<>>
    /\ AwaitDevice(d)
    /\ UNCHANGED <<sensorVars, scanVars, client, char_idx, is_connected,
                   notifying, postVars>>

\* mutant of ConnectFails: set_connected(True) runs before the check of
\* line 200
ConnectFailsMarked(d) ==
    /\ pc[d] = "connecting"
    /\ handler_exc' = "None"
    /\ pc' = [pc EXCEPT ![d] = "backoff"]
    /\ client' = [client EXCEPT ![d] = "None"]
    /\ set_connected(d, TRUE)
    /\ UNCHANGED <<power, hr, cadence, last_crank_revs, last_crank_time,
                   device_queues, scanVars, char_idx, is_connected, notifying,
                   postVars>>

\* client.connect() raises: lines 180-182, then 200-202
ConnectFails(d) ==
    /\ pc[d] = "connecting"
    /\ handler_exc' = "None"
    /\ pc' = [pc EXCEPT ![d] = "backoff"]
    /\ client' = [client EXCEPT ![d] = "None"]
    /\ UNCHANGED <<sensorVars, device_queues, scanVars, char_idx,
                   is_connected, notifying, postVars>>

\* mutant of ConnectSucceeds: set_connected(True) runs as soon as the link
\* is up, before the subscription loop
ConnectSucceedsMarked(d) ==
    /\ pc[d] = "connecting"
    /\ handler_exc' = "None"
    /\ pc' = [pc EXCEPT ![d] = "subscribing"]
    /\ char_idx' = [char_idx EXCEPT ![d] = 1]
    /\ is_connected' = [is_connected EXCEPT ![d] = TRUE]
    /\ notifying' = [notifying EXCEPT ![d] = {}]
    /\ set_connected(d, TRUE)
    /\ UNCHANGED <<power, hr, cadence, last_crank_revs, last_crank_time,
                   device_queues, scanVars, client, postVars>>

\* client.connect() returns: lines 169-174, the first start_notify
ConnectSucceeds(d) ==
    /\ pc[d] = "connecting"
    /\ handler_exc' = "None"
    /\ pc' = [pc EXCEPT ![d] = "subscribing"]
    /\ char_idx' = [char_idx EXCEPT ![d] = 1]
    /\ is_connected' = [is_connected EXCEPT ![d] = TRUE]
    /\ notifying' = [notifying EXCEPT ![d] = {}]
    /\ UNCHANGED <<sensorVars, device_queues, scanVars, client, postVars>>

\* mutant of StartNotifyDone: a start_notify that raises is caught by the
\* outer handler of line 180, so connect_device returns None
StartNotifyDoneFatal(d, ok) ==
    LET char == Characteristics(d)[char_idx[d]]
        last == char_idx[d] = Len(Characteristics(d))
    IN  /\ pc[d] = "subscribing"
        /\ handler_exc' = "None"
        /\ ok => is_connected[d]
        /\ UNCHANGED <<is_connected, scanVars, postVars, device_queues,
                       power, hr, cadence, last_crank_revs, last_crank_time>>
        /\ IF ~ok
           THEN /\ pc' = [pc EXCEPT ![d] = "backoff"]
                /\ client' = [client EXCEPT ![d] = "None"]
                /\ char_idx' = [char_idx EXCEPT ![d] = 0]
                /\ UNCHANGED <<notifying, connected_gymnasticon,
                               connected_coros>>
           ELSE /\ notifying' = [notifying EXCEPT ![d] = @ \cup {char}]
                /\ IF ~last
                   THEN /\ char_idx' = [char_idx EXCEPT ![d] = @ + 1]
                        /\ UNCHANGED <<pc, client, connected_gymnasticon,
                                       connected_coros>>
                   ELSE /\ char_idx' = [char_idx EXCEPT ![d] = 0]
                        /\ client' = [client EXCEPT ![d] = "BleakClient"]
                        /\ set_connected(d, TRUE)
                        /\ pc' = [pc EXCEPT ![d] = "monitoring"]

\* start_notify returns (ok) or raises (~ok), lines 172-177; after the last
\* characteristic connect_device returns the client, line 179, and
\* manage_device runs lines 205-209 (and 214-222 when the link is already
\* down) without suspending
StartNotifyDone(d, ok) ==
    LET char == Characteristics(d)[char_idx[d]]
        last == char_idx[d] = Len(Characteristics(d))
    IN  /\ pc[d] = "subscribing"
        /\ handler_exc' = "None"
        /\ ok => is_connected[d]
        /\ notifying' = [notifying EXCEPT ![d] = IF ok THEN @ \cup {char} ELSE @]
        /\ UNCHANGED <<is_connected, scanVars, postVars, last_crank_revs,
                       last_crank_time>>
        /\ IF ~last
           THEN /\ char_idx' = [char_idx EXCEPT ![d] = @ + 1]
                /\ UNCHANGED <<pc, client, device_queues, power, hr, cadence,
                               connected_gymnasticon, connected_coros>>
           ELSE /\ char_idx' = [char_idx EXCEPT ![d] = 0]
                /\ client' = [client EXCEPT ![d] = "BleakClient"]
                /\ IF is_connected[d]
                   THEN /\ set_connected(d, TRUE)
                        /\ pc' = [pc EXCEPT ![d] = "monitoring"]
                        /\ UNCHANGED <<device_queues, power, hr, cadence>>
                   ELSE Disconnected(d)

\* the peripheral goes away: the BleakClient reports is_connected False (or
\* raises from it) from now on and delivers no more notifications
LinkLoss(d) ==
    /\ is_connected[d]
    /\ handler_exc' = "None"
    /\ is_connected' = [is_connected EXCEPT ![d] = FALSE]
    /\ notifying' = [notifying EXCEPT ![d] = {}]
    /\ UNCHANGED <<sensorVars, device_queues, scanVars, pc, client, char_idx,
                   postVars>>

\* mutant of MonitorEnds: what the liveness poll raises is not caught and
\* ends the task
MonitorEndsUncaught(d) ==
    /\ pc[d] = "monitoring"
    /\ handler_exc' = "None"
    /\ ~is_connected[d]
    /\ pc' = [pc EXCEPT ![d] = "terminated"]
    /\ UNCHANGED <<sensorVars, device_queues, scanVars, client, char_idx,
                   is_connected, notifying, postVars>>

\* sleep(1.0) returns and client.is_connected is False or raises: lines
\* 209-222 (while it is True the loop sleeps again and nothing changes)
MonitorEnds(d) ==
    /\ pc[d] = "monitoring"
    /\ handler_exc' = "None"
    /\ ~is_connected[d]
    /\ Disconnected(d)
    /\ UNCHANGED <<scanVars, client, char_idx, is_connected, notifying,
                   postVars, last_crank_revs, last_crank_time>>

\* sleep(RECONNECT_DELAY) returns: lines 202-203, back to line 195
BackoffDone(d) ==
    /\ pc[d] = "backoff"
    /\ handler_exc' = "None"
    /\ AwaitDevice(d)
    /\ UNCHANGED <<sensorVars, scanVars, client, char_idx, is_connected,
                   notifying, postVars>>

(***************************************************************************)
(* scan_for_devices, lines 225-261.                                        *)
(*   scan_pc = "discover"  suspended in BleakScanner.discover(), line 244  *)
(*             "pause"     suspended in sleep(1.0), line 261               *)
(*             "recheck"   suspended in sleep(RECONNECT_DELAY), line 237   *)
(***************************************************************************)
\* mutant of StillNeeded: the found-set is not subtracted
StillNeededAll(f) == DEVICES

\* "Figure out what we're still looking for", line 233
StillNeeded(f) == {mac \in DEVICES : mac \notin f}

\* lines 233-244 with found = f: the top of the while loop up to the next
\* suspension
ScanCycle(f) ==
    /\ needed' = StillNeeded(f)
    /\ scan_pc' = IF StillNeeded(f) = {} THEN "recheck" ELSE "discover"

\* the addresses of `devices` the for loop of lines 247-251 hands off
Targets(devices) == {address \in devices : address \in needed}

\* discover() returns `devices` (bleak keeps one device per address): lines
\* 245-261.  put() on the unbounded queue never suspends, so the for loop is
\* part of the step.
DiscoverReturns(devices) ==
    /\ scan_pc = "discover"
    /\ handler_exc' = "None"
    /\ \A address \in Targets(devices) : Len(device_queues[address]) < MaxQueue
    /\ found' = found \cup Targets(devices)
    /\ device_queues' = [d \in DEVICES |->
                           IF d \in Targets(devices)
                           THEN Append(device_queues[d], d)
                           ELSE device_queues[d]]
    /\ scan_pc' = "pause"
    /\ UNCHANGED <<needed, sensorVars, sessionVars, postVars>>

\* mutant of DiscoverRaises: the exception is not caught and ends the task
DiscoverRaisesFatal ==
    /\ scan_pc = "discover"
    /\ handler_exc' = "None"
    /\ scan_pc' = "terminated"
    /\ UNCHANGED <<found, needed, device_queues, sensorVars, sessionVars,
                   postVars>>

\* discover() raises: lines 258-261
DiscoverRaises ==
    /\ scan_pc = "discover"
    /\ handler_exc' = "None"
    /\ scan_pc' = "pause"
    /\ UNCHANGED <<found, needed, device_queues, sensorVars, sessionVars,
                   postVars>>

\* sleep(1.0) of line 261 returns: the next cycle
PauseDone ==
    /\ scan_pc = "pause"
    /\ handler_exc' = "None"
    /\ ScanCycle(found)
    /\ UNCHANGED <<found, device_queues, sensorVars, sessionVars, postVars>>

\* mutant of RecheckDone: found.clear() of line 238 is left out
RecheckDoneNoClear ==
    /\ scan_pc = "recheck"
    /\ handler_exc' = "None"
    /\ ScanCycle(found)
    /\ UNCHANGED <<found, device_queues, sensorVars, sessionVars, postVars>>

\* sleep(RECONNECT_DELAY) of line 237 returns: lines 238-239, the next cycle
RecheckDone ==
    /\ scan_pc = "recheck"
    /\ handler_exc' = "None"
    /\ found' = {}
    /\ ScanCycle({})
    /\ UNCHANGED <<device_queues, sensorVars, sessionVars, postVars>>

(***************************************************************************)
(* post_metrics_loop, lines 268-288.                                       *)
(*   post_pc = "sleep"    suspended in sleep(POST_INTERVAL), line 288      *)
(*             "posting"  suspended in session.post(), line 282            *)
(***************************************************************************)
\* mutant of BuildMetrics: the connected flags are not consulted
BuildMetricsAll ==
    [k \in {"power", "cadence", "hr"} |->
        IF k = "power" THEN power ELSE IF k = "cadence" THEN cadence ELSE hr]

\* the dict built by lines 273-278
BuildMetrics ==
    LET keys == (IF connected_gymnasticon THEN {"power", "cadence"} ELSE {})
                \cup (IF connected_coros THEN {"hr"} ELSE {})
    IN  [k \in keys |-> IF k = "power" THEN power
                        ELSE IF k = "cadence" THEN cadence ELSE hr]

\* sleep(POST_INTERVAL) returns: lines 273-282 (or 288 when metrics is empty)
PostCycle ==
    /\ post_pc = "sleep"
    /\ handler_exc' = "None"
    /\ metrics' = BuildMetrics
    /\ post_pc' = IF DOMAIN BuildMetrics # {} THEN "posting" ELSE "sleep"
    /\ UNCHANGED <<sensorVars, device_queues, scanVars, sessionVars>>

\* the POST ends with status 200, another status, or aiohttp.ClientError:
\* lines 283-288
PostOutcomes == {"200", "500", "ClientError"}

PostDone(outcome) ==
    /\ post_pc = "posting"
    /\ handler_exc' = "None"
    /\ outcome \in PostOutcomes
    /\ post_pc' = "sleep"
    /\ UNCHANGED <<metrics, sensorVars, device_queues, scanVars, sessionVars>>

(***************************************************************************)
(* async_main, lines 346-378: the state once every task of the gather has  *)
(* run to its first suspension point (no await completes before that).     *)
(***************************************************************************)
Init ==
    /\ power = 0 /\ hr = 0 /\ cadence = 0
    /\ connected_gymnasticon = FALSE /\ connected_coros = FALSE
    /\ last_crank_revs = None /\ last_crank_time = None
    /\ device_queues = [d \in DEVICES |-> <<>>]
    /\ found = {} /\ needed = DEVICES /\ scan_pc = "discover"
    /\ pc = [d \in DEVICES |-> "idle"]
    /\ client = [d \in DEVICES |-> "None"]
    /\ char_idx = [d \in DEVICES |-> 0]
    /\ is_connected = [d \in DEVICES |-> FALSE]
    /\ notifying = [d \in DEVICES |-> {}]
    /\ post_pc = "sleep" /\ metrics = <<>>
    /\ handler_exc = "None"

ScannerNext ==
    \/ \E devices \in SUBSET (DEVICES \cup {OtherAddr}) : DiscoverReturns(devices)
    \/ DiscoverRaises
    \/ PauseDone
    \/ RecheckDone

SessionNext(d) ==
    \/ QueueGet(d)
    \/ ConnectFails(d)
    \/ ConnectSucceeds(d)
    \/ \E ok \in BOOLEAN : StartNotifyDone(d, ok)
    \/ MonitorEnds(d)
    \/ BackoffDone(d)

NotifyNext ==
    \/ \E data \in HeartRatePayloads : handle_heart_rate(data)
    \/ \E data \in CyclingPowerPayloads : handle_cycling_power(data)
    \/ \E data \in CscPayloads : handle_csc_measurement(data)

PostNext ==
    \/ PostCycle
    \/ \E outcome \in PostOutcomes : PostDone(outcome)

\* the core: scanner, sessions, peripherals and their notifications
Next ==
    \/ ScannerNext
    \/ \E d \in DEVICES : SessionNext(d)
    \/ \E d \in DEVICES : LinkLoss(d)
    \/ NotifyNext

Spec == Init /\ [][Next]_vars

(***************************************************************************)
(* The scanner and the sessions alone, with the scheduling the event loop  *)
(* gives them: discover() and every sleep return, so the scanner's next    *)
(* step is eventually taken, and so is a session's (connect, start_notify  *)
(* and the sleeps return; the queue get returns once an event is there).   *)
(***************************************************************************)
LifecycleNext ==
    \/ ScannerNext
    \/ \E d \in DEVICES : SessionNext(d)
    \/ \E d \in DEVICES : LinkLoss(d)

FairSpec ==
    /\ Init /\ [][LifecycleNext]_vars
    /\ WF_vars(ScannerNext)
    /\ \A d \in DEVICES : WF_vars(SessionNext(d))

(***************************************************************************)
(* The same with the readings of connected devices: one heart-rate, one    *)
(* power and two crank notifications.  The peripherals owe the program no  *)
(* notification and no link loss, so these steps carry no fairness.        *)
(***************************************************************************)
ReadingsNext ==
    \/ handle_heart_rate(<<0, 72>>)
    \/ handle_cycling_power(<<0, 0, 237, 0>>)
    \/ \E data \in {<<2, 100, 0, 0, 4>>, <<2, 110, 0, 0, 8>>} :
          handle_csc_measurement(data)

FairReadingsNext == LifecycleNext \/ ReadingsNext

FairReadingsSpec ==
    /\ Init /\ [][FairReadingsNext]_vars
    /\ WF_vars(ScannerNext)
    /\ \A d \in DEVICES : WF_vars(SessionNext(d))

(***************************************************************************)
(* The cadence decoder alone: the cycling device is connected and          *)
(* subscribed, nothing is remembered yet, and CSC notifications arrive.    *)
(***************************************************************************)
\* CSC Measurement with crank data (revs, time), without wheel data
CrankPayload(revs, time) ==
    <<2, revs % 256, revs \div 256, time % 256, time \div 256>>

\* the same with wheel data before the crank fields
WheelCrankPayload(revs, time) ==
    <<3, 7, 0, 0, 0, 9, 0, revs % 256, revs \div 256, time % 256, time \div 256>>

\* crank samples: the spec's examples, counters around the 16-bit wrap,
\* pairs whose quotient falls on a rounding tie, and two samples with the
\* same event time
CrankSamples ==
    {<<0, 0>>, <<4, 10>>, <<6, 10>>, <<5, 8202>>, <<5, 24586>>, <<100, 1024>>,
     <<110, 2048>>, <<200, 4096>>, <<32768, 32768>>, <<65530, 65530>>,
     <<65535, 65535>>}

CscSamplePayloads ==
    {CrankPayload(s[1], s[2]) : s \in CrankSamples}
    \cup {WheelCrankPayload(120, 3072), <<1, 7, 0, 0, 0, 9, 0>>}

CscInit ==
    /\ power = 0 /\ hr = 0 /\ cadence = 0
    /\ connected_gymnasticon = TRUE /\ connected_coros = FALSE
    /\ last_crank_revs = None /\ last_crank_time = None
    /\ device_queues = [d \in DEVICES |-> <<>>]
    /\ found = {"gymnasticon"} /\ needed = {"coros_pace_3"}
    /\ scan_pc = "discover"
    /\ pc = [d \in DEVICES |-> IF d = "gymnasticon" THEN "monitoring" ELSE "idle"]
    /\ client = [d \in DEVICES |->
                   IF d = "gymnasticon" THEN "BleakClient" ELSE "None"]
    /\ char_idx = [d \in DEVICES |-> 0]
    /\ is_connected = [d \in DEVICES |-> d = "gymnasticon"]
    /\ notifying = [d \in DEVICES |->
                      IF d = "gymnasticon"
                      THEN {"CHAR_CYCLING_POWER", "CHAR_CSC_MEASUREMENT"} ELSE {}]
    /\ post_pc = "sleep" /\ metrics = <<>>
    /\ handler_exc = "None"

CscNext == \E data \in CscSamplePayloads : handle_csc_measurement(data)

CscSpec == CscInit /\ [][CscNext]_vars

(***************************************************************************)
(* The heart-rate decoder alone: the heart-rate device is connected and    *)
(* subscribed, and Heart Rate Measurement notifications arrive.            *)
(***************************************************************************)
\* value bytes of the samples
HrLowBytes == {0, 1, 44, 72, 100, 127, 128, 200, 254, 255}
HrHighBytes == {0, 1, 2, 127, 128, 255}

\* Heart Rate Measurement payloads: 8-bit and 16-bit values, with and
\* without other flag bits (22 = contact and energy bits) and trailing bytes
\* (energy expended, RR intervals), and payloads too short to decode
HrSamplePayloads ==
    {<<f, a>> : f \in {0, 22}, a \in HrLowBytes}
    \cup {<<f, a, 9, 200>> : f \in {0, 22}, a \in HrLowBytes}
    \cup {<<f, a, b>> : f \in {1, 23}, a \in HrLowBytes, b \in HrHighBytes}
    \cup {<<1, a, b, 9>> : a \in HrLowBytes, b \in HrHighBytes}
    \cup {<<>>, <<0>>, <<1, 44>>}

HrInit ==
    /\ power = 0 /\ hr = 0 /\ cadence = 0
    /\ connected_gymnasticon = FALSE /\ connected_coros = TRUE
    /\ last_crank_revs = None /\ last_crank_time = None
    /\ device_queues = [d \in DEVICES |-> <<>>]
    /\ found = {"coros_pace_3"} /\ needed = {"gymnasticon"}
    /\ scan_pc = "discover"
    /\ pc = [d \in DEVICES |-> IF d = "coros_pace_3" THEN "monitoring" ELSE "idle"]
    /\ client = [d \in DEVICES |->
                   IF d = "coros_pace_3" THEN "BleakClient" ELSE "None"]
    /\ char_idx = [d \in DEVICES |-> 0]
    /\ is_connected = [d \in DEVICES |-> d = "coros_pace_3"]
    /\ notifying = [d \in DEVICES |->
                      IF d = "coros_pace_3" THEN {"CHAR_HEART_RATE"} ELSE {}]
    /\ post_pc = "sleep" /\ metrics = <<>>
    /\ handler_exc = "None"

HrNext == \E data \in HrSamplePayloads : handle_heart_rate(data)

HrSpec == HrInit /\ [][HrNext]_vars

(***************************************************************************)
(* The core together with the publisher, with one heart-rate and one power *)
(* reading.                                                                *)
(***************************************************************************)
PostSpecNext ==
    \/ ScannerNext
    \/ \E d \in DEVICES : SessionNext(d)
    \/ \E d \in DEVICES : LinkLoss(d)
    \/ \E data \in {<<0, 72>>} : handle_heart_rate(data)
    \/ \E data \in {<<0, 0, 237, 0>>} : handle_cycling_power(data)
    \/ PostNext

PostSpec == Init /\ [][PostSpecNext]_vars

(***************************************************************************)
(* Properties.                                                             *)
(***************************************************************************)
Connected(d) ==
    IF d = "gymnasticon" THEN connected_gymnasticon ELSE connected_coros

\* a step of session d that runs the disconnect transition, lines 214-222:
\* the session leaves Monitoring, or leaves Subscribing for line 195
DisconnectStep(d) ==
    \/ pc[d] = "monitoring" /\ pc'[d] # "monitoring"
    \/ pc[d] = "subscribing" /\ pc'[d] \in {"idle", "connecting"}

\* C1: the disconnect transition of the cycling session sets power and
\* cadence to 0 and leaves hr, the remembered crank pair and the other
\* device's connected flag unchanged; that of the heart-rate session sets hr
\* to 0 and leaves power, cadence, the crank pair and the other flag unchanged.
C1_DisconnectZeroesOwnMetrics ==
    [][/\ DisconnectStep("gymnasticon") =>
            /\ power' = 0 /\ cadence' = 0 /\ ~connected_gymnasticon'
            /\ UNCHANGED <<hr, connected_coros, last_crank_revs, last_crank_time>>
       /\ DisconnectStep("coros_pace_3") =>
            /\ hr' = 0 /\ ~connected_coros'
            /\ UNCHANGED <<power, cadence, connected_gymnasticon,
                           last_crank_revs, last_crank_time>>]_vars

\* the cycling session is idle again after a connection during which power
\* and crank data arrived, while the heart-rate device stays connected with a
\* reading
C1_Witness ==
    /\ pc["gymnasticon"] = "idle" /\ client["gymnasticon"] = "BleakClient"
    /\ last_crank_revs # None /\ power = 0 /\ cadence = 0
    /\ connected_coros /\ hr = 72

\* C2: a failed connect never marks the device connected: the flag is false
\* while the session is Connecting or in its backoff sleep, the failing step
\* and the step ending the backoff leave it false, and from the backoff the
\* session goes only to line 195 (Idle, or Connecting with an event taken
\* from its queue).
C2_FailedConnectNeverConnected ==
    /\ [](\A d \in DEVICES : pc[d] \in {"connecting", "backoff"} => ~Connected(d))
    /\ [][\A d \in DEVICES :
            /\ (pc[d] = "connecting" /\ pc'[d] # "subscribing") =>
                   (pc'[d] \in {"connecting", "backoff"} /\ ~Connected(d)')
            /\ (pc[d] = "backoff" /\ pc'[d] # "backoff") =>
                   /\ ~Connected(d)'
                   /\ \/ pc'[d] = "idle" /\ device_queues'[d] = <<>>
                      \/ /\ pc'[d] = "connecting"
                         /\ device_queues[d] # <<>>
                         /\ device_queues'[d] = Tail(device_queues[d])]_vars

\* the cycling session sleeps its backoff after a failed reconnect (it was
\* connected before: a crank pair is remembered) with the flag false
C2_Witness ==
    /\ pc["gymnasticon"] = "backoff" /\ ~connected_gymnasticon
    /\ last_crank_revs # None

\* C3: after a failed connect the next attempt uses an event pushed after the
\* failure.  get() takes the head of the FIFO, and every event in the queue
\* when connect_device returns None comes from a scan that had completed by
\* then, so the claim says the queue is empty at every failure.
C3_RetryUsesFreshDiscovery ==
    [][\A d \in DEVICES :
          (pc[d] = "connecting" /\ pc'[d] = "backoff") => device_queues[d] = <<>>]_vars

\* C4: an event is pushed to an address's queue only when the address is in
\* the still-needed set of the cycle (targets minus found) and not yet found,
\* one event at a time, and the push marks it found; an address leaves the
\* found-set only when the whole set is cleared.  So at most one event per
\* address is pushed between two clears.
C4_OnePushPerFoundCycle ==
    [][\A d \in DEVICES :
          /\ Len(device_queues'[d]) > Len(device_queues[d]) =>
                /\ needed = DEVICES \ found
                /\ d \in needed /\ d \notin found /\ d \in found'
                /\ device_queues'[d] = Append(device_queues[d], d)
          /\ (d \in found /\ d \notin found') => found' = {}]_vars

\* the cycling address was found and handed off, and a later scan for the
\* heart-rate address alone pushed nothing more to the cycling queue
C4_Witness ==
    /\ found = {"gymnasticon"} /\ needed = {"coros_pace_3"}
    /\ scan_pc = "pause"
    /\ pc["gymnasticon"] = "monitoring" /\ device_queues["gymnasticon"] = <<>>

\* a scan completes with address d among its results (a step in which d is
\* not needed is the same whether d was heard or not, and counts)
ScanSees(d) ==
    \E devices \in SUBSET (DEVICES \cup {OtherAddr}) :
        d \in devices /\ DiscoverReturns(devices)

\* session d waits on its empty queue
IdleWaiting(d) == pc[d] = "idle" /\ device_queues[d] = <<>>

\* C5: a full found-set is always cleared again; and if scans keep
\* completing with every target among their results, a session that waits in
\* Idle (so also one that returned there after link loss) is eventually
\* handed a new event, its address leaving the found-set first when it is in
\* it.
C5_DisconnectedIsRediscovered ==
    /\ (found = DEVICES) ~> (found = {})
    /\ (\A d \in DEVICES : []<><<ScanSees(d)>>_vars) =>
          \A d \in DEVICES :
              /\ IdleWaiting(d) ~> (device_queues[d] # <<>>)
              /\ (IdleWaiting(d) /\ d \in found) ~> (d \notin found)

\* the cycling session is back in Idle after link loss (its last connect
\* returned a client), its address still in the found-set
C5_Witness ==
    /\ IdleWaiting("gymnasticon") /\ client["gymnasticon"] = "BleakClient"
    /\ "gymnasticon" \in found

\* C6: if device b is never discovered while scans keep completing with
\* device a among their results, a's session waiting in Idle is still
\* eventually handed a new event.
C6_OtherDeviceDoesNotBlock ==
    \A a \in DEVICES : \A b \in DEVICES \ {a} :
        ([](b \notin found) /\ []<><<ScanSees(a)>>_vars) =>
            (IdleWaiting(a) ~> (device_queues[a] # <<>>))

\* whether some crank notification of CscPayloads, handled now, would emit a
\* cadence
CrankWouldEmit ==
    \E data \in CscPayloads :
        /\ CscDecodes(data)
        /\ \E out \in parse_csc_measurement(data, last_crank_revs,
                                            last_crank_time) : out.ret # None

\* C7: the first crank notification handled after a (re)connection emits no
\* cadence.  CSC is the last characteristic subscribed, so while the cycling
\* session is Subscribing no CSC notification of this connection has been
\* handled: whichever crank notification comes first must emit nothing.
C7_FirstCrankAfterConnectEmitsNothing ==
    pc["gymnasticon"] = "subscribing" => ~CrankWouldEmit

\* the 16-bit deltas of a step
RevDelta == (last_crank_revs' - last_crank_revs) % 65536
TimeDelta == (last_crank_time' - last_crank_time) % 65536

\* c is rev_delta * 1024 * 60 / time_delta rounded to a nearest integer (the
\* product fits 32 bits for rev_delta <= 34000)
IsRounded(c, rev_delta, time_delta) ==
    LET n == rev_delta * 61440
        q == n \div time_delta
        r == n % time_delta
    IN  /\ 2 * r < time_delta => c = q
        /\ 2 * r > time_delta => c = q + 1
        /\ 2 * r = time_delta => c \in {q, q + 1}

\* C8: when a pair is remembered and a crank sample arrives whose time delta
\* mod 65536 is positive, the cadence becomes rev_delta*1024*60/time_delta
\* rounded, with both deltas taken mod 65536; (65530, 65530) then (4, 10)
\* gives 38400 and (100, 1024) then (110, 2048) gives 600.
C8_CadenceUsesWraparoundDeltas ==
    [][/\ (last_crank_revs # None /\ TimeDelta > 0 /\ RevDelta <= 34000) =>
             IsRounded(cadence', RevDelta, TimeDelta)
       /\ (last_crank_revs = 65530 /\ last_crank_time = 65530
              /\ last_crank_revs' = 4 /\ last_crank_time' = 10) => cadence' = 38400
       /\ (last_crank_revs = 100 /\ last_crank_time = 1024
              /\ last_crank_revs' = 110 /\ last_crank_time' = 2048) => cadence' = 600]_vars

\* the sample (4, 10) was handled after both counters wrapped
C8_Witness == last_crank_revs = 4 /\ last_crank_time = 10 /\ cadence = 38400

\* the values the two decoders produce for the payloads delivered
DecodedPowers ==
    {parse_cycling_power(data) :
        data \in {x \in CyclingPowerPayloads : CyclingPowerDecodes(x)}}
DecodedHeartRates ==
    {parse_heart_rate(data) : data \in {x \in HeartRatePayloads : HeartRateDecodes(x)}}

\* C9: while both devices stay connected, a power notification sets power to
\* its decoded value and leaves hr alone, a heart-rate notification sets hr
\* to its decoded value and leaves power alone, and no other step changes
\* either field: each field always holds its last applied write.
C9_WritesDoNotInterfere ==
    [][(connected_gymnasticon /\ connected_coros
          /\ connected_gymnasticon' /\ connected_coros') =>
         /\ \A data \in CyclingPowerPayloads :
               (CyclingPowerDecodes(data) /\ handle_cycling_power(data)) =>
                   (power' = parse_cycling_power(data) /\ hr' = hr)
         /\ \A data \in HeartRatePayloads :
               (HeartRateDecodes(data) /\ handle_heart_rate(data)) =>
                   (hr' = parse_heart_rate(data) /\ power' = power)
         /\ power' # power => (power' \in DecodedPowers /\ hr' = hr)
         /\ hr' # hr => (hr' \in DecodedHeartRates /\ power' = power)]_vars

\* both devices connected, each field holding a reading of its own device
C9_Witness ==
    /\ connected_gymnasticon /\ connected_coros
    /\ power = 237 /\ hr = 300

\* a step of the publisher that starts a cycle
PostCycleStep == post_pc = "sleep" /\ <<post_pc, metrics>>' # <<post_pc, metrics>>

\* C10: a publisher cycle puts power and cadence in the snapshot exactly when
\* connected_gymnasticon is true and hr exactly when connected_coros is true,
\* each with the current value, and posts exactly when the snapshot is not
\* empty; the end of a POST, whatever its outcome, changes no field of the
\* shared state.
C10_SnapshotOnlyConnected ==
    /\ [](post_pc = "posting" => DOMAIN metrics # {})
    /\ [][/\ PostCycleStep =>
               /\ ("power" \in DOMAIN metrics') <=> connected_gymnasticon
               /\ ("cadence" \in DOMAIN metrics') <=> connected_gymnasticon
               /\ ("hr" \in DOMAIN metrics') <=> connected_coros
               /\ DOMAIN metrics' \subseteq {"power", "cadence", "hr"}
               /\ connected_gymnasticon =>
                     (metrics'["power"] = power /\ metrics'["cadence"] = cadence)
               /\ connected_coros => metrics'["hr"] = hr
               /\ (post_pc' = "posting") <=>
                     (connected_gymnasticon \/ connected_coros)
               /\ UNCHANGED sensorVars
          /\ (post_pc = "posting" /\ post_pc' = "sleep") =>
               UNCHANGED <<sensorVars, metrics>>]_vars

\* a snapshot with hr alone is being posted while the cycling device, not
\* marked connected, already has a power reading
C10_Witness ==
    /\ post_pc = "posting" /\ DOMAIN metrics = {"hr"} /\ metrics["hr"] = 72
    /\ ~connected_gymnasticon /\ power = 237

\* C11: a short or malformed notification payload is decoded to "no value":
\* no exception ever escapes a notification handler.  (The handlers do leave
\* every field of the shared state and the session unchanged on such a
\* payload; what fails is that the decoder raises instead of returning.)
C11_ShortPayloadReturnsNoValue == handler_exc = "None"

\* a step of session d that resumes from start_notify
SubscribeStep(d) ==
    /\ pc[d] = "subscribing"
    /\ (char_idx'[d] # char_idx[d] \/ pc'[d] # pc[d])

\* C12: whether start_notify returned or raised, the session attempts the
\* next characteristic in order; after the last one, with the link up, it
\* has the client, marks the device connected and enters Monitoring.  Only
\* the characteristic just attempted can be added to the subscriptions.
C12_SubscriptionFailureNotFatal ==
    [][\A d \in DEVICES : SubscribeStep(d) =>
          /\ notifying'[d] \subseteq
                 notifying[d] \cup {Characteristics(d)[char_idx[d]]}
          /\ char_idx[d] < Len(Characteristics(d)) =>
                 /\ pc'[d] = "subscribing"
                 /\ char_idx'[d] = char_idx[d] + 1
                 /\ Connected(d)' = Connected(d)
          /\ (char_idx[d] = Len(Characteristics(d)) /\ is_connected[d]) =>
                 /\ pc'[d] = "monitoring"
                 /\ Connected(d)'
                 /\ client'[d] = "BleakClient"]_vars

\* the cycling device is marked connected and monitored although both of its
\* subscriptions failed on a live link
C12_Witness ==
    /\ pc["gymnasticon"] = "monitoring" /\ connected_gymnasticon
    /\ is_connected["gymnasticon"] /\ notifying["gymnasticon"] = {}

\* C13: a scan cycle that pushes no handoff event (discover() raised, or
\* returned no needed target) leaves the found-set as it was and goes on to
\* the pause of line 261; the scanner is always at one of its three
\* suspension points and comes back to discover() again and again.
C13_ScanErrorNotFatal ==
    /\ [](scan_pc \in {"discover", "pause", "recheck"})
    /\ [][(scan_pc = "discover" /\ scan_pc' # "discover") =>
            /\ scan_pc' = "pause"
            /\ found \subseteq found'
            /\ device_queues' = device_queues => found' = found]_vars
    /\ []<>(scan_pc = "discover")

\* a cycle that looked for the cycling device alone ended without a push:
\* the found-set still holds only the heart-rate device, whose session is in
\* its backoff sleep
C13_Witness ==
    /\ scan_pc = "pause" /\ needed = {"gymnasticon"}
    /\ found = {"coros_pace_3"} /\ device_queues["gymnasticon"] = <<>>
    /\ pc["coros_pace_3"] = "backoff"

\* the value the Heart Rate Measurement format gives a payload: the byte at
\* offset 1, or with flags bit 0 set the little-endian 16 bits at offsets 1-2
HrExpected(data) ==
    IF data[1] % 2 = 0 THEN data[2] ELSE data[2] + 256 * data[3]

\* C14: a heart-rate notification whose payload holds its value bytes sets hr
\* to the byte at offset 1 when flags bit 0 is clear and to the little-endian
\* 16-bit value at offsets 1-2 when it is set, whatever the other flag bits
\* and the trailing bytes are.
C14_HeartRateDecode ==
    [][\A data \in HrSamplePayloads :
          (/\ Len(data) >= 1
           /\ Len(data) >= (IF data[1] % 2 = 0 THEN 2 ELSE 3)
           /\ handle_heart_rate(data)) => hr' = HrExpected(data)]_vars

\* a 16-bit reading above 255 was decoded (bytes 200, 127)
C14_Witness == connected_coros /\ hr = 32712 /\ handler_exc = "None"

\* C15: power, hr and cadence are never negative; a power notification with
\* the signed value -50 at offset 2 sets power to 0 and one with 237 sets it
\* to 237.
C15_MetricsNonNegative ==
    /\ [](power >= 0 /\ hr >= 0 /\ cadence >= 0)
    /\ [][/\ handle_cycling_power(<<0, 0, 206, 255>>) => power' = 0
          /\ handle_cycling_power(<<0, 0, 237, 0>>) => power' = 237]_vars

\* the cycling device is connected with a power reading and a cadence that
\* was computed across a wrap of both crank counters ((110, 2048) followed
\* by (100, 1024)), the heart-rate device with a 16-bit reading
C15_Witness ==
    /\ connected_gymnasticon /\ connected_coros
    /\ last_crank_revs = 100 /\ last_crank_time = 1024
    /\ cadence > 600 /\ power = 237 /\ hr = 300

\* the crank fields a CSC Measurement payload carries
HasCrank(data) == (data[1] \div 2) % 2 = 1
CrankOffset(data) == IF data[1] % 2 = 1 THEN 7 ELSE 1
CrankRevs(data) ==
    data[CrankOffset(data) + 1] + 256 * data[CrankOffset(data) + 2]
CrankTime(data) ==
    data[CrankOffset(data) + 3] + 256 * data[CrankOffset(data) + 4]

\* no pair is remembered, or the sample's event time equals the remembered
\* one (time_delta is 0)
NoRate(data) == last_crank_revs = None \/ CrankTime(data) = last_crank_time

\* C16: for every remembered pair and every CSC payload, the decoder stores
\* the payload's crank sample as the new pair when it carries crank data,
\* emitting nothing when no pair was remembered or time_delta is 0, and
\* stores and emits nothing when it carries none; the handler then leaves
\* the cadence metric unchanged whenever nothing was emitted.
C16_CrankPairAlwaysReplaced ==
    /\ [](\A data \in CscSamplePayloads :
            \A out \in parse_csc_measurement(data, last_crank_revs,
                                              last_crank_time) :
               IF HasCrank(data)
               THEN /\ out.revs = CrankRevs(data)
                    /\ out.time = CrankTime(data)
                    /\ NoRate(data) => out.ret = None
               ELSE /\ out.revs = last_crank_revs
                    /\ out.time = last_crank_time
                    /\ out.ret = None)
    /\ [][\A data \in CscSamplePayloads : handle_csc_measurement(data) =>
            IF HasCrank(data)
            THEN /\ last_crank_revs' = CrankRevs(data)
                 /\ last_crank_time' = CrankTime(data)
                 /\ NoRate(data) => cadence' = cadence
            ELSE UNCHANGED <<last_crank_revs, last_crank_time, cadence>>]_vars

\* the sample (6, 10) replaced the pair (4, 10) without a rate: the cadence
\* is still the 38400 computed for (4, 10)
C16_Witness == last_crank_revs = 6 /\ last_crank_time = 10 /\ cadence = 38400

\* C17: a handoff event is pushed to a device's queue only while that
\* device's session waits in Idle (from which the claim concludes that no
\* queue ever holds more than one event).
C17_PushedOnlyWhileIdle ==
    [][\A d \in DEVICES :
          Len(device_queues'[d]) > Len(device_queues[d]) => pc[d] = "idle"]_vars

\* the metrics session d owns are zero
OwnedMetricsZero(d) ==
    IF d = "gymnasticon" THEN power = 0 /\ cadence = 0 ELSE hr = 0

\* C18: a session in Monitoring whose link is down eventually has its flag
\* false and its own metrics zero and is back at its queue (waiting, or
\* already connecting with an event that was queued); and a session is
\* always at one of the suspension points of its loop.
C18_DisconnectCompletes ==
    /\ [](\A d \in DEVICES :
            pc[d] \in {"idle", "connecting", "subscribing", "backoff",
                       "monitoring"})
    /\ \A d \in DEVICES :
          (pc[d] = "monitoring" /\ ~is_connected[d]) ~>
              (/\ pc[d] \in {"idle", "connecting"}
               /\ ~Connected(d)
               /\ OwnedMetricsZero(d))

\* the cycling session is still in Monitoring, marked connected and holding
\* readings, after its link went down
C18_Witness ==
    /\ pc["gymnasticon"] = "monitoring" /\ ~is_connected["gymnasticon"]
    /\ connected_gymnasticon /\ power = 237 /\ cadence = 600

\* C19: a device's flag is true only while its session is in Monitoring with
\* the client of a successful connect; it becomes true only on the step that
\* ends the subscription loop and is false whenever the session is back at
\* its queue; a session waiting, connecting or backing off has no live link
\* (the one BleakClient it may still reference is down), and it never starts
\* a connect attempt with its flag true.
C19_FlagTracksSession ==
    /\ [](\A d \in DEVICES :
            /\ Connected(d) =>
                  (pc[d] = "monitoring" /\ client[d] = "BleakClient")
            /\ pc[d] \in {"idle", "connecting", "backoff"} => ~is_connected[d])
    /\ [][\A d \in DEVICES :
            /\ (~Connected(d) /\ Connected(d)') =>
                  /\ pc[d] = "subscribing"
                  /\ char_idx[d] = Len(Characteristics(d))
                  /\ pc'[d] = "monitoring"
            /\ (pc[d] # "connecting" /\ pc'[d] = "connecting") =>
                  (~Connected(d) \/ pc[d] = "monitoring") /\ ~Connected(d)'
            /\ (pc[d] = "monitoring" /\ pc'[d] # "monitoring") =>
                  (~Connected(d)' /\ pc'[d] \in {"idle", "connecting"})]_vars

\* the cycling session connects again, its flag false, while it still
\* references the client of its previous connection, whose link is down
C19_Witness ==
    /\ pc["gymnasticon"] = "connecting" /\ client["gymnasticon"] = "BleakClient"
    /\ ~connected_gymnasticon /\ ~is_connected["gymnasticon"]
    /\ last_crank_revs # None

\* C20: a device that is not marked connected shows no reading: power and
\* cadence are 0 whenever connected_gymnasticon is false, and hr is 0
\* whenever connected_coros is false.
C20_NoReadingWhenNotConnected ==
    /\ ~connected_gymnasticon => (power = 0 /\ cadence = 0)
    /\ ~connected_coros => hr = 0

====
